---- MODULE Spec2Model ----
(***************************************************************************)
(* Nordic legacy DFU over BLE: the update run of src/dfu.py (main,         *)
(* jump_to_bootloader, perform_update, _stream_firmware, the notification  *)
(* handler and _wait_for_response) and the run of src/dfu_cli.py (main),   *)
(* which wraps perform_update in a 300 s deadline.                         *)
(*                                                                         *)
(* One asyncio task runs the update; every `await` is a suspension point   *)
(* and is a value of pc.  The transport (connect, subscribe, write, scan)  *)
(* and the device (its notifications) are the environment: each outcome    *)
(* the transport can produce is a choice of the action that awaits it.     *)
(* The command line flags --wait, --loop and --corrupt keep their default  *)
(* (off).                                                                  *)
(*                                                                         *)
(* Spec is the run of either main; FairSpec adds the fairness of the event *)
(* loop; JumpSpec is dfu_cli.py's run with a jump that can fail; ScanSpec  *)
(* and HintSpec apply find_device's selection and the address heuristic of *)
(* main to the inputs drawn by their initial states.                       *)
(***************************************************************************)
EXTENDS Integers, Sequences, FiniteSets, TLC

(* ---- op codes, src/dfu.py:24-34 ---- *)
OP_CODE_START_DFU == 1
OP_CODE_INIT_DFU_PARAMS == 2
OP_CODE_RECEIVE_FIRMWARE_IMAGE == 3
OP_CODE_VALIDATE == 4
OP_CODE_ACTIVATE_AND_RESET == 5
OP_CODE_RESET == 6
OP_CODE_PACKET_RECEIPT_NOTIF_REQ == 8
OP_CODE_RESPONSE_CODE == 16
OP_CODE_PACKET_RECEIPT_NOTIF == 17
OP_CODE_ENTER_BOOTLOADER == 1
UPLOAD_MODE_APPLICATION == 4

(* the only status the code treats as success (dfu.py:120) *)
SUCCESS == 1
(* the value _wait_for_response returns for a mismatch or a timeout *)
NO_RESPONSE == -1

chunk_size == 20
max_retries == 3

(* ---- bounds of the model ---- *)
(* images of 0..MaxChunks-1 full chunks, and one of MaxChunks full chunks *)
(* and a one-byte tail                                                    *)
MaxChunks == 2
(* receipt intervals 0..MaxPrn *)
MaxPrn == 2
(* status events the queue holds at once (asyncio.Queue is unbounded) *)
MaxQueue == 1
(* devices in one scan result *)
MaxDevices == 2
(* chunks of the longest image streamed on its own (StreamSpec) *)
StreamChunks == 3

(* ---- inputs ---- *)
Image(L) == [k \in 1..L |-> k % 256]
ImageLengths ==
    {c * chunk_size + (IF c = MaxChunks THEN 1 ELSE 0) : c \in 0..MaxChunks}
PrnValues == 0..MaxPrn
DelayValues == {0, 4}
Entries == {"dfu", "cli"}

(* the runs checked: every image with every receipt interval under        *)
(* dfu.py's main without a start delay, and both mains with and without   *)
(* the delay for the longest image at receipt interval 1                  *)
AllConfigs ==
    [entry : Entries, len : ImageLengths, prn : PrnValues, delay : DelayValues]
Configs ==
    {c \in AllConfigs : c.entry = "dfu" /\ c.delay = 0}
      \cup {c \in AllConfigs : c.len = MaxChunks * chunk_size + 1 /\ c.prn = 1}

(* the runs checked for progress: dfu_cli.py's main with the start delay, *)
(* the longest image and every positive receipt interval                  *)
StreamingConfigs ==
    {c \in AllConfigs : /\ c.entry = "cli" /\ c.delay > 0 /\ c.prn > 0
                        /\ c.len = MaxChunks * chunk_size + 1}
dat_data == <<13, 37>>

(* what the device may notify: a status for a request op code, a receipt   *)
(* (with or without its 4-byte count), or a frame with another first byte  *)
RespOps == {OP_CODE_START_DFU, OP_CODE_INIT_DFU_PARAMS,
            OP_CODE_RECEIVE_FIRMWARE_IMAGE, OP_CODE_VALIDATE}
StatusCodes == {SUCCESS, 2}
Notifications ==
    {<<OP_CODE_RESPONSE_CODE, op, st>> : op \in RespOps, st \in StatusCodes}
      \cup {<<OP_CODE_PACKET_RECEIPT_NOTIF, 20, 0, 0, 0>>,
            <<OP_CODE_PACKET_RECEIPT_NOTIF>>}
      \cup {<<32>>}

VARIABLES
    entry,              \* which main runs: "dfu" (dfu.py) or "cli" (dfu_cli.py)
    bin_data,           \* the image
    prn,                \* receipt interval
    packet_delay,       \* start/size delay, tenths of a second
    pc,                 \* the await the task is suspended at
    attempt,            \* loop variable of perform_update
    conns,              \* open BleakClient connections
    response_queue,     \* asyncio.Queue of (request_op, status)
    pkg_receipt_event,  \* asyncio.Event
    bytes_sent,
    packets_since_prn,
    i,                  \* offset of the chunk in flight (a local of
                        \* _stream_firmware, like packets_since_prn: 0 outside)
    status,             \* value returned by the last _wait_for_response of
                        \* the attempt (line 183 assigns it before any read)
    rx,                 \* the (request_op, status) that wait took off the
                        \* queue, <<>> when it timed out
    acked,              \* op codes for which a wait of this attempt took a
                        \* success status of that op code off the queue
    ctl,                \* control-point writes of the open connection
    pkt,                \* packet-characteristic writes of the open connection
    pct,                \* last percentage written to the progress sink
    err,                \* the exception being handled / that ended the run
    backoffs,           \* number of 3 s retry sleeps started
    exitCode,           \* process exit status, -1 while running
    jump_attempt,       \* loop variable of the jump loop of dfu_cli.py's main
                        \* (`attempt`, line 116); 0 outside the loop
    original_mac,       \* app_device.address, a sequence of characters
    bootloader_mac_hint,\* the candidate address derived from it
    name_or_address,    \* find_device: the identifier looked for
    service_uuid,       \* find_device: the service filter, <<>> for None
    scanned_devices,    \* find_device: the scan result, in dict order
    target,             \* find_device: <<d>> for the device chosen, <<>> for None
    waits,              \* receipt waits begun by the stream under way or, after
                        \* it, by the last stream (observation, not in the code)
    erased              \* the clear() before the receipt wait under way found
                        \* the event set (observation, not in the code)

vars == <<entry, bin_data, prn, packet_delay, pc, attempt, conns,
          response_queue, pkg_receipt_event, bytes_sent, packets_since_prn,
          i, status, rx, acked, ctl, pkt, pct, err, backoffs, exitCode,
          jump_attempt, original_mac, bootloader_mac_hint, name_or_address,
          service_uuid, scanned_devices, target, waits, erased>>

config == <<entry, bin_data, prn, packet_delay>>
session == <<response_queue, pkg_receipt_event>>
waited == <<status, rx, acked>>
stream == <<bytes_sent, packets_since_prn, i, pct>>
wire == <<ctl, pkt>>
outcome == <<err, backoffs, exitCode>>
located == <<jump_attempt>>
hint == <<original_mac, bootloader_mac_hint>>
lookup == <<name_or_address, service_uuid, scanned_devices, target>>
observed == <<waits, erased>>

(* the state of a run that has not begun, but for pc and for what the *)
(* locator works on                                                   *)
Fresh(configs) ==
    /\ \E c \in configs :
         /\ entry = c.entry
         /\ bin_data = Image(c.len)
         /\ prn = c.prn
         /\ packet_delay = c.delay
    /\ attempt = 0
    /\ conns = 0
    /\ response_queue = <<>>
    /\ pkg_receipt_event = FALSE
    /\ bytes_sent = 0
    /\ packets_since_prn = 0
    /\ i = 0
    /\ status = 0
    /\ rx = <<>>
    /\ acked = <<>>
    /\ ctl = <<>>
    /\ pkt = <<>>
    /\ pct = -1
    /\ err = "none"
    /\ backoffs = 0
    /\ exitCode = -1
    /\ jump_attempt = 0
    /\ waits = 0
    /\ erased = FALSE

NoHint == original_mac = <<>> /\ bootloader_mac_hint = <<>>

NoLookup ==
    /\ name_or_address = <<>> /\ service_uuid = <<>>
    /\ scanned_devices = <<>> /\ target = <<>>

InitFor(configs) ==
    /\ Fresh(configs)
    /\ pc = "find_app"
    /\ NoHint
    /\ NoLookup

Init == InitFor(Configs)

(* ------------------------------------------------------------------ *)
(* helpers                                                            *)
(* ------------------------------------------------------------------ *)

(* struct.pack('<I', n) and struct.pack('<H', n) *)
LE32(n) == <<n % 256, (n \div 256) % 256, (n \div 65536) % 256,
             (n \div 16777216) % 256>>
LE16(n) == <<n % 256, (n \div 256) % 256>>

(* mutant of AExit: the connection is not closed on leaving the block *)
AExitLeaks(c) == c

(* leaving `async with BleakClient(...)`: the connection is closed *)
AExit(c) == c - 1

(* entering `async with BleakClient(...)` *)
AEnter(c) == c + 1

(* the top-level handler of main: dfu.py exits 1, dfu_cli.py logs and, *)
(* --loop being off, leaves its loop and returns                        *)
MainExceptCode(e) == IF e = "dfu" THEN 1 ELSE 0

MainExcept(tag) ==
    /\ pc' = "exit"
    /\ err' = tag
    /\ exitCode' = MainExceptCode(entry)
    /\ UNCHANGED backoffs

(* ------------------------------------------------------------------ *)
(* _notification_handler                                              *)
(* ------------------------------------------------------------------ *)

(* mutant of OnNotification: `else` for the `elif` of line 106, so that *)
(* every frame that is not a status sets the receipt event              *)
OnNotificationElse(data) ==
    LET opcode == data[1] IN
    IF opcode = OP_CODE_RESPONSE_CODE
    THEN /\ Len(response_queue) < MaxQueue
         /\ response_queue' = Append(response_queue, <<data[2], data[3]>>)
         /\ UNCHANGED pkg_receipt_event
    ELSE /\ pkg_receipt_event' = TRUE
         /\ UNCHANGED response_queue

(* the body of _notification_handler for one frame *)
OnNotification(data) ==
    LET opcode == data[1] IN
    IF opcode = OP_CODE_RESPONSE_CODE
    THEN /\ Len(response_queue) < MaxQueue
         /\ response_queue' = Append(response_queue, <<data[2], data[3]>>)
         /\ UNCHANGED pkg_receipt_event
    ELSE IF opcode = OP_CODE_PACKET_RECEIPT_NOTIF
    THEN /\ pkg_receipt_event' = TRUE
         /\ UNCHANGED response_queue
    ELSE UNCHANGED session

NotificationHandler ==
    /\ conns > 0
    /\ \E data \in Notifications : OnNotification(data)
    /\ UNCHANGED <<config, hint, lookup, observed, located, pc, attempt, conns, stream, waited, wire, outcome>>

(* ------------------------------------------------------------------ *)
(* main: locate, jump, settle, rediscover                             *)
(*                                                                    *)
(* Both mains run the same sequence.  A scan is its outcome: a device *)
(* found or none (dfu_cli.py's scan functions come from dfu_lib).     *)
(* dfu_cli.py:116-129 calls jump_to_bootloader in a loop that retries *)
(* on DfuException; jump_to_bootloader (dfu.py:129-144) catches every *)
(* Exception, so the first pass of that loop ends it.                 *)
(* ------------------------------------------------------------------ *)

FindApp ==
    /\ pc = "find_app"
    /\ \E found \in BOOLEAN :
         IF found
         THEN pc' = "j_connect" /\ UNCHANGED outcome
         ELSE MainExcept("device_not_found")
    /\ UNCHANGED <<config, hint, lookup, observed, located, attempt, conns, session, stream, waited, wire>>

(* mutant of JumpConnect: a failure to connect is raised to main *)
JumpConnectRaises ==
    /\ pc = "j_connect"
    /\ \E ok \in BOOLEAN :
         IF ok
         THEN conns' = AEnter(conns) /\ pc' = "j_start_notify"
              /\ ctl' = <<>> /\ pkt' = <<>>
              /\ UNCHANGED outcome
         ELSE MainExcept("transport") /\ UNCHANGED <<conns, wire>>
    /\ UNCHANGED <<config, hint, lookup, observed, located, attempt, session, stream, waited>>

JumpConnect ==
    /\ pc = "j_connect"
    /\ \E ok \in BOOLEAN :
         IF ok
         THEN conns' = AEnter(conns) /\ pc' = "j_start_notify"
              /\ ctl' = <<>> /\ pkt' = <<>>
         ELSE pc' = "settle" /\ UNCHANGED <<conns, wire>>
    /\ UNCHANGED <<config, hint, lookup, observed, located, attempt, session, stream, waited, outcome>>

JumpStartNotify ==
    /\ pc = "j_start_notify"
    /\ \E ok \in BOOLEAN :
         IF ok
         THEN pc' = "j_write" /\ UNCHANGED conns
         ELSE pc' = "settle" /\ conns' = AExit(conns)
    /\ UNCHANGED <<config, hint, lookup, observed, located, attempt, session, stream, waited, wire, outcome>>

JumpWrite ==
    /\ pc = "j_write"
    /\ \E ok \in BOOLEAN :
         IF ok
         THEN ctl' = Append(ctl, <<OP_CODE_ENTER_BOOTLOADER, UPLOAD_MODE_APPLICATION>>)
         ELSE UNCHANGED ctl
    /\ pc' = "j_sleep"
    /\ UNCHANGED <<config, hint, lookup, observed, located, attempt, conns, session, stream, waited, pkt, outcome>>

JumpSleep ==
    /\ pc = "j_sleep"
    /\ pc' = "settle"
    /\ conns' = AExit(conns)
    /\ UNCHANGED <<config, hint, lookup, observed, located, attempt, session, stream, waited, wire, outcome>>

(* the sleep after the jump loop (dfu.py:346, dfu_cli.py:132) *)
Settle ==
    /\ pc = "settle"
    /\ pc' = "find_boot"
    /\ jump_attempt' = 0
    /\ UNCHANGED <<config, hint, lookup, observed, attempt, conns, session, stream, waited, wire, outcome>>

FindBootloader ==
    /\ pc = "find_boot"
    /\ \E found \in BOOLEAN, macLike \in BOOLEAN :
         IF found
         THEN pc' = "connect" /\ UNCHANGED outcome
         ELSE IF macLike
         THEN pc' = "find_hint" /\ UNCHANGED outcome
         ELSE MainExcept("bootloader_not_found")
    /\ UNCHANGED <<config, hint, lookup, observed, located, attempt, conns, session, stream, waited, wire>>

FindBootloaderByHint ==
    /\ pc = "find_hint"
    /\ \E found \in BOOLEAN :
         IF found
         THEN pc' = "connect" /\ UNCHANGED outcome
         ELSE MainExcept("bootloader_not_found")
    /\ UNCHANGED <<config, hint, lookup, observed, located, attempt, conns, session, stream, waited, wire>>

(* ------------------------------------------------------------------ *)
(* find_device: the broadcast scan (dfu.py:294-312)                   *)
(* ------------------------------------------------------------------ *)

AsciiLower == <<"a", "b", "c", "d", "e", "f", "u">>
AsciiUpper == <<"A", "B", "C", "D", "E", "F", "U">>

UpperChar(c) ==
    IF \E k \in 1..Len(AsciiLower) : AsciiLower[k] = c
    THEN AsciiUpper[CHOOSE k \in 1..Len(AsciiLower) : AsciiLower[k] = c]
    ELSE c
LowerChar(c) ==
    IF \E k \in 1..Len(AsciiUpper) : AsciiUpper[k] = c
    THEN AsciiLower[CHOOSE k \in 1..Len(AsciiUpper) : AsciiUpper[k] = c]
    ELSE c

(* str.upper() and str.lower() *)
upper(str) == [k \in 1..Len(str) |-> UpperChar(str[k])]
lower(str) == [k \in 1..Len(str) |-> LowerChar(str[k])]

(* `service_uuid.lower() in [u.lower() for u in adv.service_uuids]` *)
AdvertisesService(d, uuid) ==
    \E k \in 1..Len(d.service_uuids) : lower(d.service_uuids[k]) = lower(uuid)

(* the loop over scanned_devices: the first device, in the order of the  *)
(* scan result, that matches by address, by name or, with a filter, by   *)
(* service; <<>> when the loop ends with target still None               *)
RECURSIVE SelectTarget(_, _, _)
SelectTarget(devices, id, uuid) ==
    IF devices = <<>> THEN <<>>
    ELSE LET d == Head(devices) IN
         IF upper(d.address) = upper(id) THEN <<d>>
         ELSE IF d.name = id THEN <<d>>
         ELSE IF uuid # <<>> /\ AdvertisesService(d, uuid) THEN <<d>>
         ELSE SelectTarget(Tail(devices), id, uuid)

(* what a scan may return: devices with an address, an advertised name  *)
(* (`adv.local_name or d.name or ""`) and advertised services; the scan *)
(* result is a dict, so no two of its devices have the same address     *)
ScanAddresses == {<<"A", "1">>, <<"B", "2">>, <<"C", "3">>}
ScanNames == {<<>>, <<"D", "F", "U">>, <<"a", "1">>}
ScanServices == {<<>>, << <<"F", "E">> >>}
ScanDevices == [address : ScanAddresses, name : ScanNames, service_uuids : ScanServices]
RECURSIVE ScanResults(_)
ScanResults(n) ==
    IF n = 0 THEN {<<>>}
    ELSE LET shorter == ScanResults(n - 1) IN
         shorter \cup
         {Append(r, d) : r \in {x \in shorter : Len(x) = n - 1},
                         d \in ScanDevices}
DistinctAddresses(r) ==
    \A j, k \in 1..Len(r) : j # k => r[j].address # r[k].address
Identifiers == {<<"a", "1">>, <<"A", "1">>, <<"D", "F", "U">>}
ServiceFilters == {<<>>, <<"f", "e">>}

(* scanner.discover() has returned; the loop, then the raise or the return *)
FindDevice ==
    /\ pc = "scan"
    /\ target' = SelectTarget(scanned_devices, name_or_address, service_uuid)
    /\ IF target' = <<>>
       THEN MainExcept("device_not_found")
       ELSE pc' = "found" /\ UNCHANGED outcome
    /\ UNCHANGED <<config, hint, located, observed, name_or_address, service_uuid,
                   scanned_devices, attempt, conns, session, stream, waited, wire>>

ScanInit ==
    /\ Fresh(Configs)
    /\ entry = "dfu" /\ bin_data = <<>> /\ prn = 0
    /\ pc = "scan"
    /\ NoHint
    /\ name_or_address \in Identifiers
    /\ service_uuid \in ServiceFilters
    /\ scanned_devices \in {r \in ScanResults(MaxDevices) : DistinctAddresses(r)}
    /\ target = <<>>

ScanSpec == ScanInit /\ [][FindDevice]_vars

(* ------------------------------------------------------------------ *)
(* the address heuristic of main (dfu.py:356-366, dfu_cli.py:142-152) *)
(*                                                                    *)
(* A string is the sequence of its characters.                        *)
(* ------------------------------------------------------------------ *)

HexUpper == <<"0", "1", "2", "3", "4", "5", "6", "7", "8", "9",
              "A", "B", "C", "D", "E", "F">>
HexLower == <<"0", "1", "2", "3", "4", "5", "6", "7", "8", "9",
              "a", "b", "c", "d", "e", "f">>
HexChars == {HexUpper[k] : k \in 1..16} \cup {HexLower[k] : k \in 1..16}

(* the value int(c, 16) gives a digit *)
DigitValue(c) == CHOOSE v \in 0..15 : HexUpper[v + 1] = c \/ HexLower[v + 1] = c

(* int(s, 16) raises ValueError unless s is made of hex digits (signs, *)
(* blanks and underscores, which int also takes, are not drawn)        *)
IsHex(s) == Len(s) > 0 /\ \A k \in 1..Len(s) : s[k] \in HexChars

RECURSIVE Int16(_)
Int16(s) ==
    IF s = <<>> THEN 0
    ELSE Int16(SubSeq(s, 1, Len(s) - 1)) * 16 + DigitValue(s[Len(s)])

(* format(n, "X"): the upper-case hex digits of n *)
RECURSIVE FormatX(_)
FormatX(n) ==
    IF n < 16 THEN <<HexUpper[n + 1]>>
    ELSE FormatX(n \div 16) \o <<HexUpper[(n % 16) + 1]>>

(* f"{n:02X}": padded with zeros to two digits at least *)
Format02X(n) == IF n < 16 THEN <<"0">> \o FormatX(n) ELSE FormatX(n)

(* `":" in original_mac and len(original_mac) == 17` *)
MacLike(mac) == Len(mac) = 17 /\ \E k \in 1..Len(mac) : mac[k] = ":"

(* mutant of BootloaderMacHint: the increment is not masked with 0xFF *)
BootloaderMacHintUnmasked(mac) ==
    SubSeq(mac, 1, Len(mac) - 2)
      \o Format02X(Int16(SubSeq(mac, Len(mac) - 1, Len(mac))) + 1)

(* prefix = mac[:-2]; last_byte = (int(mac[-2:], 16) + 1) & 0xFF; *)
(* f"{prefix}{last_byte:02X}"                                      *)
BootloaderMacHint(mac) ==
    SubSeq(mac, 1, Len(mac) - 2)
      \o Format02X((Int16(SubSeq(mac, Len(mac) - 1, Len(mac))) + 1) % 256)

(* addresses checked: two prefixes with every pair of hex digits, of    *)
(* either case, as last octet; an address whose last octet is not hex;  *)
(* and identifiers that are not 17 characters with a colon              *)
MacPrefixes ==
    {<<"A", "A", ":", "B", "B", ":", "C", "C", ":", "D", "D", ":", "E", "E", ":">>,
     <<"c", "0", ":", "f", "f", ":", "e", "e", ":", "0", "0", ":", "1", "a", ":">>}
MacInputs ==
    {p \o <<a, b>> : p \in MacPrefixes, a \in HexChars, b \in HexChars}
      \cup {p \o <<"Z", "Z">> : p \in MacPrefixes}
      \cup {<<"D", "F", "U">>,
            <<"A", "A", "B", "B", "C", "C", "D", "D", "E", "E", "F", "F",
              "0", "0", "1", "1", "2">>}

(* the fallback after the service scan found nothing: the hint is derived *)
(* and scanned for; without a hint (the address is not MAC-like, or int() *)
(* raised and the bare `except` passed) the bootloader is not found       *)
DeriveHint ==
    /\ pc = "hint"
    /\ IF MacLike(original_mac)
            /\ IsHex(SubSeq(original_mac, Len(original_mac) - 1, Len(original_mac)))
       THEN /\ bootloader_mac_hint' = BootloaderMacHint(original_mac)
            /\ pc' = "find_hint"
            /\ UNCHANGED outcome
       ELSE /\ MainExcept("bootloader_not_found")
            /\ UNCHANGED bootloader_mac_hint
    /\ UNCHANGED <<config, lookup, located, observed, original_mac, attempt, conns,
                   session, stream, waited, wire>>

HintInit ==
    /\ Fresh(Configs)
    /\ entry = "dfu" /\ bin_data = <<>> /\ prn = 0
    /\ pc = "hint"
    /\ original_mac \in MacInputs
    /\ bootloader_mac_hint = <<>>
    /\ NoLookup

HintSpec == HintInit /\ [][DeriveHint]_vars

(* ------------------------------------------------------------------ *)
(* the jump loop of dfu_cli.py's main (lines 116-129)                 *)
(*                                                                    *)
(* The loop retries on DfuException.  The jump_to_bootloader it calls *)
(* comes from dfu_lib; that it can fail with a DfuException is taken  *)
(* from the specification ("retried ... before the outer retry counts *)
(* it as a failure").  JumpSpec is the run of dfu_cli.py with such a  *)
(* jump_to_bootloader.                                                *)
(* ------------------------------------------------------------------ *)

(* `for attempt in range(3)` *)
jump_tries == 3

(* mutant of JumpRetryLeft: `attempt < 3` *)
JumpRetryLeftOffByOne(a) == a < 3

(* dfu_cli.py:125, `attempt < 2` *)
JumpRetryLeft(a) == a < 2

(* `except DfuException` of the loop: sleep and go on, or re-raise to main *)
JumpExcept(tag) ==
    IF JumpRetryLeft(jump_attempt)
    THEN pc' = "j_backoff" /\ UNCHANGED <<jump_attempt, outcome>>
    ELSE MainExcept(tag) /\ UNCHANGED jump_attempt

(* jump_to_bootloader raises DfuException *)
JumpRaises ==
    /\ entry = "cli"
    /\ pc \in {"j_connect", "j_start_notify", "j_write", "j_sleep"}
    /\ conns' = IF conns > 0 THEN AExit(conns) ELSE conns
    /\ JumpExcept("jump_failed")
    /\ UNCHANGED <<config, hint, lookup, observed, attempt, session, stream, waited, wire>>

(* asyncio.sleep(2.0) ends; the next value of range(3), or its end *)
JumpBackoff ==
    /\ pc = "j_backoff"
    /\ IF jump_attempt + 1 < jump_tries
       THEN pc' = "j_rescan" /\ jump_attempt' = jump_attempt + 1
       ELSE pc' = "settle" /\ UNCHANGED jump_attempt
    /\ UNCHANGED <<config, hint, lookup, observed, attempt, conns, session, stream, waited, wire, outcome>>

(* `if attempt > 0`: find_any_device again, inside the try *)
JumpRescan ==
    /\ pc = "j_rescan"
    /\ \E found \in BOOLEAN :
         IF found
         THEN pc' = "j_connect" /\ UNCHANGED <<jump_attempt, outcome>>
         ELSE JumpExcept("device_not_found")
    /\ UNCHANGED <<config, hint, lookup, observed, attempt, conns, session, stream, waited, wire>>

(* ------------------------------------------------------------------ *)
(* perform_update                                                     *)
(* ------------------------------------------------------------------ *)

(* mutant of RetryLeft: `attempt < max_retries` *)
RetryLeftOffByOne(a) == a < max_retries

(* dfu.py:244, `attempt < max_retries - 1` *)
RetryLeft(a) == a < max_retries - 1

(* the `except Exception` of the retry loop, dfu.py:242-249 *)
Except(tag) ==
    /\ err' = tag
    /\ IF RetryLeft(attempt)
       THEN pc' = "backoff" /\ backoffs' = backoffs + 1 /\ UNCHANGED exitCode
       ELSE pc' = "exit" /\ exitCode' = 1 /\ UNCHANGED backoffs

(* an exception raised inside the `async with` block *)
Raise(tag) == conns' = AExit(conns) /\ Except(tag)

Goto(next) == pc' = next /\ UNCHANGED <<conns, outcome>>

Connect ==
    /\ pc = "connect"
    /\ \E ok \in BOOLEAN :
         IF ok
         THEN /\ conns' = AEnter(conns)
              /\ pc' = "start_notify"
              /\ ctl' = <<>> /\ pkt' = <<>> /\ acked' = <<>>
              /\ UNCHANGED <<outcome, status, rx>>
         ELSE /\ Except("transport")
              /\ UNCHANGED <<conns, wire, waited>>
    /\ UNCHANGED <<config, hint, lookup, observed, located, attempt, session, stream>>

(* start_notify, then the queue is emptied (dfu.py:158-159) *)
StartNotify ==
    /\ pc = "start_notify"
    /\ \E ok \in BOOLEAN :
         IF ok
         THEN /\ response_queue' = <<>>
              /\ Goto("w_start")
         ELSE /\ Raise("transport")
              /\ UNCHANGED response_queue
    /\ UNCHANGED <<config, hint, lookup, observed, located, attempt, pkg_receipt_event, stream, waited, wire>>

(* one acknowledged write to the control point *)
CtlWrite(at, payload, next) ==
    /\ pc = at
    /\ \E ok \in BOOLEAN :
         IF ok
         THEN ctl' = Append(ctl, payload) /\ Goto(next)
         ELSE UNCHANGED ctl /\ Raise("transport")
    /\ UNCHANGED <<config, hint, lookup, observed, located, attempt, session, stream, waited, pkt>>

(* one unacknowledged write to the packet characteristic *)
PktWrite(at, payload, next) ==
    /\ pc = at
    /\ \E ok \in BOOLEAN :
         IF ok
         THEN pkt' = Append(pkt, payload) /\ Goto(next)
         ELSE UNCHANGED pkt /\ Raise("transport")
    /\ UNCHANGED <<config, hint, lookup, observed, located, attempt, session, stream, waited, ctl>>

(* mutant of WaitResult: the status of a matching event is not looked at *)
WaitResultIgnoresStatus(expected_op_code, ev) ==
    IF ev[1] # expected_op_code THEN NO_RESPONSE ELSE 1

(* mutant of WaitResult: the op code of the event is not compared *)
WaitResultIgnoresOp(expected_op_code, ev) ==
    IF ev[2] # SUCCESS THEN ev[2] ELSE 1

(* _wait_for_response: the value returned for the event taken *)
WaitResult(expected_op_code, ev) ==
    IF ev[1] # expected_op_code THEN NO_RESPONSE
    ELSE IF ev[2] # SUCCESS THEN ev[2]
    ELSE 1

(* response_queue.get(): the queue after the head was taken *)
QueueGet(q) == Tail(q)

(* mutant of WaitForResponse: an event for another op code is dropped and *)
(* the wait goes on for the expected one                                  *)
WaitForResponseRewaits(at, expected_op_code, next, tag, failpc) ==
    /\ pc = at
    /\ \/ /\ response_queue # <<>>
          /\ Head(response_queue)[1] = expected_op_code
          /\ response_queue' = QueueGet(response_queue)
          /\ rx' = Head(response_queue)
          /\ status' = WaitResult(expected_op_code, Head(response_queue))
       \/ /\ response_queue # <<>>
          /\ Head(response_queue)[1] # expected_op_code
          /\ response_queue' = QueueGet(response_queue)
          /\ rx' = Head(response_queue)
          /\ status' = 1
       \/ /\ response_queue = <<>>
          /\ rx' = <<>>
          /\ status' = NO_RESPONSE
          /\ UNCHANGED response_queue
    /\ acked' = IF rx' = <<expected_op_code, SUCCESS>>
                THEN Append(acked, expected_op_code) ELSE acked
    /\ IF rx' # <<>> /\ rx'[1] # expected_op_code
       THEN Goto(at)
       ELSE IF status' = 1
       THEN Goto(next)
       ELSE IF failpc # "" THEN Goto(failpc) ELSE Raise(tag)
    /\ UNCHANGED <<config, hint, lookup, observed, located, attempt, pkg_receipt_event, stream, wire>>

(* _wait_for_response(expected), then the caller's `if status != 1` *)
WaitForResponse(at, expected_op_code, next, tag, failpc) ==
    /\ pc = at
    /\ \/ /\ response_queue # <<>>
          /\ response_queue' = QueueGet(response_queue)
          /\ rx' = Head(response_queue)
          /\ status' = WaitResult(expected_op_code, Head(response_queue))
       \/ /\ response_queue = <<>>
          /\ rx' = <<>>
          /\ status' = NO_RESPONSE
          /\ UNCHANGED response_queue
    /\ acked' = IF rx' = <<expected_op_code, SUCCESS>>
                THEN Append(acked, expected_op_code) ELSE acked
    /\ IF status' = 1
       THEN Goto(next)
       ELSE IF failpc # "" THEN Goto(failpc) ELSE Raise(tag)
    /\ UNCHANGED <<config, hint, lookup, observed, located, attempt, pkg_receipt_event, stream, wire>>

WriteStart ==
    CtlWrite("w_start", <<OP_CODE_START_DFU, UPLOAD_MODE_APPLICATION>>,
             IF packet_delay > 0 THEN "delay" ELSE "w_size")

StartDelay ==
    /\ pc = "delay"
    /\ Goto("w_size")
    /\ UNCHANGED <<config, hint, lookup, observed, located, attempt, session, stream, waited, wire>>

WriteSize ==
    PktWrite("w_size", LE32(0) \o LE32(0) \o LE32(Len(bin_data)), "wait_start")

WaitStart ==
    WaitForResponse("wait_start", OP_CODE_START_DFU, "w_init_begin",
                    "start_failed", "w_reset")

(* dfu.py:187-188: the reset write, then the DfuException *)
WriteReset ==
    /\ pc = "w_reset"
    /\ \E ok \in BOOLEAN :
         IF ok
         THEN ctl' = Append(ctl, <<OP_CODE_RESET>>) /\ Raise("start_failed")
         ELSE UNCHANGED ctl /\ Raise("transport")
    /\ UNCHANGED <<config, hint, lookup, observed, located, attempt, session, stream, waited, pkt>>

WriteInitBegin ==
    CtlWrite("w_init_begin", <<OP_CODE_INIT_DFU_PARAMS, 0>>, "w_init_data")

WriteInitData == PktWrite("w_init_data", dat_data, "w_init_end")

WriteInitEnd ==
    CtlWrite("w_init_end", <<OP_CODE_INIT_DFU_PARAMS, 1>>, "wait_init")

WaitInit ==
    WaitForResponse("wait_init", OP_CODE_INIT_DFU_PARAMS,
                    IF prn > 0 THEN "w_prn" ELSE "w_recv", "init_failed", "")

WritePrn ==
    CtlWrite("w_prn", <<OP_CODE_PACKET_RECEIPT_NOTIF_REQ>> \o LE16(prn), "w_recv")

(* ------------------------------------------------------------------ *)
(* _stream_firmware                                                   *)
(* ------------------------------------------------------------------ *)

Min(a, b) == IF a < b THEN a ELSE b

(* mutant of Chunk: the slice ends one byte early *)
ChunkShort(data, off) ==
    SubSeq(data, off + 1, Min(off + chunk_size, Len(data)) - 1)

(* bin_data[i : i + chunk_size] *)
Chunk(data, off) == SubSeq(data, off + 1, Min(off + chunk_size, Len(data)))

(* int((bytes_sent / total_bytes) * 100).  The quotient is a float: for  *)
(* some operands (29 of 50) the result is one less than the floor of the *)
(* exact value; for the image lengths checked here it is that floor.     *)
Percent(sent, total) == (sent * 100) \div total

(* mutant of ReceiptDue: `packets_since_prn > self.prn` *)
ReceiptDueLate(n, packets) == n > 0 /\ packets > n

(* dfu.py:271, `self.prn > 0 and packets_since_prn >= self.prn` *)
ReceiptDue(n, packets) == n > 0 /\ packets >= n

(* range(0, total_bytes, chunk_size): is there an offset after `off` *)
MoreChunks(off, total) == off + chunk_size < total

(* mutant of NextIteration: the stream ends without the final report *)
NextIterationSilent(packets, reported) ==
    IF MoreChunks(i, Len(bin_data))
    THEN /\ i' = i + chunk_size /\ packets_since_prn' = packets
         /\ pct' = reported /\ Goto("w_chunk")
    ELSE /\ i' = 0 /\ packets_since_prn' = 0
         /\ pct' = reported /\ Goto("wait_recv")

(* the end of one loop iteration: the next chunk write, or the end of the *)
(* stream, which reports 100% and returns to perform_update               *)
NextIteration(packets, reported) ==
    IF MoreChunks(i, Len(bin_data))
    THEN /\ i' = i + chunk_size /\ packets_since_prn' = packets
         /\ pct' = reported /\ Goto("w_chunk")
    ELSE /\ i' = 0 /\ packets_since_prn' = 0
         /\ pct' = 100 /\ Goto("wait_recv")

(* the write of the receive-image command, then the entry of _stream_firmware *)
WriteReceive ==
    /\ pc = "w_recv"
    /\ \E ok \in BOOLEAN :
         IF ok
         THEN /\ ctl' = Append(ctl, <<OP_CODE_RECEIVE_FIRMWARE_IMAGE>>)
              /\ packets_since_prn' = 0
              /\ bytes_sent' = 0
              /\ i' = 0
              /\ waits' = 0
              /\ IF Len(bin_data) > 0
                 THEN pct' = pct /\ Goto("w_chunk")
                 ELSE pct' = 100 /\ Goto("wait_recv")
         ELSE UNCHANGED <<ctl, stream, waits>> /\ Raise("transport")
    /\ UNCHANGED <<config, hint, lookup, erased, located, attempt, session, waited, pkt>>

(* mutant of WriteChunk: the event is not cleared before the wait *)
WriteChunkNoClear ==
    /\ pc = "w_chunk"
    /\ \E ok \in BOOLEAN :
         IF ok
         THEN LET chunk == Chunk(bin_data, i)
                  sent == bytes_sent + Len(chunk)
                  packets == packets_since_prn + 1
                  reported == IF i % 2000 = 0
                              THEN Percent(sent, Len(bin_data)) ELSE pct
              IN  /\ pkt' = Append(pkt, chunk)
                  /\ bytes_sent' = sent
                  /\ IF ReceiptDue(prn, packets)
                     THEN /\ pkg_receipt_event' = pkg_receipt_event
                          /\ packets_since_prn' = packets
                          /\ i' = i /\ pct' = reported
                          /\ waits' = waits + 1
                          /\ erased' = pkg_receipt_event
                          /\ Goto("prn_wait")
                     ELSE /\ UNCHANGED <<pkg_receipt_event, waits, erased>>
                          /\ NextIteration(packets, reported)
         ELSE /\ UNCHANGED <<pkt, bytes_sent, pct, pkg_receipt_event, waits,
                           erased>>
              /\ i' = 0 /\ packets_since_prn' = 0
              /\ Raise("transport")
    /\ UNCHANGED <<config, hint, lookup, located, attempt, response_queue, waited, ctl>>

(* one chunk write and the rest of its iteration up to the next await *)
WriteChunk ==
    /\ pc = "w_chunk"
    /\ \E ok \in BOOLEAN :
         IF ok
         THEN LET chunk == Chunk(bin_data, i)
                  sent == bytes_sent + Len(chunk)
                  packets == packets_since_prn + 1
                  reported == IF i % 2000 = 0
                              THEN Percent(sent, Len(bin_data)) ELSE pct
              IN  /\ pkt' = Append(pkt, chunk)
                  /\ bytes_sent' = sent
                  /\ IF ReceiptDue(prn, packets)
                     THEN /\ pkg_receipt_event' = FALSE
                          /\ packets_since_prn' = packets
                          /\ i' = i /\ pct' = reported
                          /\ waits' = waits + 1
                          /\ erased' = pkg_receipt_event
                          /\ Goto("prn_wait")
                     ELSE /\ UNCHANGED <<pkg_receipt_event, waits, erased>>
                          /\ NextIteration(packets, reported)
         ELSE /\ UNCHANGED <<pkt, bytes_sent, pct, pkg_receipt_event, waits,
                           erased>>
              /\ i' = 0 /\ packets_since_prn' = 0
              /\ Raise("transport")
    /\ UNCHANGED <<config, hint, lookup, located, attempt, response_queue, waited, ctl>>

(* mutant of ReceiptArrived: packets_since_prn is not set back to 0 *)
ReceiptArrivedKeepsCount ==
    /\ pc = "prn_wait"
    /\ erased' = FALSE
    /\ pkg_receipt_event
    /\ bytes_sent' = bytes_sent
    /\ NextIteration(packets_since_prn, pct)
    /\ UNCHANGED <<config, hint, lookup, waits, located, attempt, session,
                   waited, wire>>

(* pkg_receipt_event.wait() returns: the event is set *)
ReceiptArrived ==
    /\ pc = "prn_wait"
    /\ erased' = FALSE
    /\ pkg_receipt_event
    /\ bytes_sent' = bytes_sent
    /\ NextIteration(0, pct)
    /\ UNCHANGED <<config, hint, lookup, waits, located, attempt, session, waited, wire>>

(* mutant of ReceiptTimeout: the TimeoutError is not caught *)
ReceiptTimeoutFatal ==
    /\ pc = "prn_wait"
    /\ erased' = FALSE
    /\ ~pkg_receipt_event
    /\ i' = 0 /\ packets_since_prn' = 0
    /\ Raise("transport")
    /\ UNCHANGED <<config, hint, lookup, waits, located, attempt, session, bytes_sent, pct, waited, wire>>

(* asyncio.TimeoutError after 5 s: a warning, and the loop goes on *)
ReceiptTimeout ==
    /\ pc = "prn_wait"
    /\ erased' = FALSE
    /\ ~pkg_receipt_event
    /\ bytes_sent' = bytes_sent
    /\ NextIteration(0, pct)
    /\ UNCHANGED <<config, hint, lookup, waits, located, attempt, session, waited, wire>>

(* ------------------------------------------------------------------ *)
(* perform_update, after the stream                                   *)
(* ------------------------------------------------------------------ *)

WaitReceive ==
    WaitForResponse("wait_recv", OP_CODE_RECEIVE_FIRMWARE_IMAGE, "w_validate",
                    "upload_failed", "")

(* mutant of WriteValidate: the command is written without waiting for *)
(* the status of the receive-image command                             *)
WriteValidateEarly == CtlWrite("wait_recv", <<OP_CODE_VALIDATE>>, "wait_validate")

WriteValidate == CtlWrite("w_validate", <<OP_CODE_VALIDATE>>, "wait_validate")

WaitValidate ==
    WaitForResponse("wait_validate", OP_CODE_VALIDATE, "w_activate",
                    "validation_failed", "")

(* mutant of WriteActivate: an error of the write is not caught *)
WriteActivateRaises ==
    /\ pc = "w_activate"
    /\ \E ok \in BOOLEAN :
         IF ok
         THEN /\ ctl' = Append(ctl, <<OP_CODE_ACTIVATE_AND_RESET>>)
              /\ conns' = AExit(conns)
              /\ pc' = "exit"
              /\ exitCode' = 0
              /\ UNCHANGED <<err, backoffs>>
         ELSE UNCHANGED ctl /\ Raise("transport")
    /\ UNCHANGED <<config, hint, lookup, observed, located, attempt, session, stream, waited, pkt>>

(* dfu.py:234-240: the write, its error swallowed, then `return`: the    *)
(* connection is closed and main ends normally                           *)
WriteActivate ==
    /\ pc = "w_activate"
    /\ \E ok \in BOOLEAN :
         IF ok
         THEN ctl' = Append(ctl, <<OP_CODE_ACTIVATE_AND_RESET>>)
         ELSE UNCHANGED ctl
    /\ conns' = AExit(conns)
    /\ pc' = "exit"
    /\ exitCode' = 0
    /\ UNCHANGED <<config, hint, lookup, observed, located, attempt, session, stream, waited, pkt, err, backoffs>>

(* mutant of Backoff: the retry starts over from locating the target *)
BackoffRelocates ==
    /\ pc = "backoff"
    /\ attempt' = attempt + 1
    /\ pc' = "find_app"
    /\ err' = "none"
    /\ status' = 0
    /\ rx' = <<>>
    /\ UNCHANGED <<config, hint, lookup, observed, located, conns, session, stream, acked, wire, backoffs, exitCode>>

(* asyncio.sleep(3.0) ends; the next iteration of the retry loop *)
Backoff ==
    /\ pc = "backoff"
    /\ attempt' = attempt + 1
    /\ pc' = "connect"
    /\ err' = "none"
    /\ status' = 0
    /\ rx' = <<>>
    /\ UNCHANGED <<config, hint, lookup, observed, located, conns, session, stream, acked, wire, backoffs, exitCode>>

(* the awaits of perform_update *)
UpdatePcs ==
    {"connect", "start_notify", "w_start", "delay", "w_size", "wait_start",
     "w_reset", "w_init_begin", "w_init_data", "w_init_end", "wait_init",
     "w_prn", "w_recv", "w_chunk", "prn_wait", "wait_recv", "w_validate",
     "wait_validate", "w_activate", "backoff"}

(* mutant of Deadline: the cancellation is handled by the `except        *)
(* Exception` of the retry loop like any failure of the attempt          *)
DeadlineRetried ==
    /\ entry = "cli"
    /\ pc \in UpdatePcs
    /\ conns' = IF conns > 0 THEN AExit(conns) ELSE conns
    /\ Except("timeout")
    /\ i' = 0 /\ packets_since_prn' = 0
    /\ UNCHANGED <<config, hint, lookup, observed, located, attempt, session, bytes_sent,
                   pct, waited, wire>>

(* dfu_cli.py:159-162: wait_for(perform_update, 300) expires; the task is *)
(* cancelled where it is suspended, `async with` closes the connection,   *)
(* and main handles DfuException("DFU timed out")                         *)
Deadline ==
    /\ entry = "cli"
    /\ pc \in UpdatePcs
    /\ conns' = IF conns > 0 THEN AExit(conns) ELSE conns
    /\ MainExcept("timeout")
    /\ i' = 0 /\ packets_since_prn' = 0
    /\ UNCHANGED <<config, hint, lookup, observed, located, attempt, session, bytes_sent, pct, waited, wire>>

Next ==
    \/ NotificationHandler
    \/ FindApp
    \/ JumpConnect
    \/ JumpStartNotify
    \/ JumpWrite
    \/ JumpSleep
    \/ Settle
    \/ FindBootloader
    \/ FindBootloaderByHint
    \/ Connect
    \/ StartNotify
    \/ WriteStart
    \/ StartDelay
    \/ WriteSize
    \/ WaitStart
    \/ WriteReset
    \/ WriteInitBegin
    \/ WriteInitData
    \/ WriteInitEnd
    \/ WaitInit
    \/ WritePrn
    \/ WriteReceive
    \/ WriteChunk
    \/ ReceiptArrived
    \/ ReceiptTimeout
    \/ WaitReceive
    \/ WriteValidate
    \/ WaitValidate
    \/ WriteActivate
    \/ Backoff
    \/ Deadline

Spec == Init /\ [][Next]_vars

(* every step of the update task: all of Next but the device's notifications *)
TaskStep ==
    \/ FindApp \/ JumpConnect \/ JumpStartNotify \/ JumpWrite \/ JumpSleep
    \/ Settle \/ FindBootloader \/ FindBootloaderByHint
    \/ Connect \/ StartNotify \/ WriteStart \/ StartDelay \/ WriteSize
    \/ WaitStart \/ WriteReset \/ WriteInitBegin \/ WriteInitData
    \/ WriteInitEnd \/ WaitInit \/ WritePrn \/ WriteReceive \/ WriteChunk
    \/ ReceiptArrived \/ ReceiptTimeout \/ WaitReceive \/ WriteValidate
    \/ WaitValidate \/ WriteActivate \/ Backoff \/ Deadline

(* the event loop resumes the task when what it awaits is over: every write, *)
(* scan and connect returns or raises, every sleep ends and every wait_for   *)
(* has a finite timeout                                                      *)
FairSpec == InitFor(StreamingConfigs) /\ [][Next]_vars /\ WF_vars(TaskStep)

(* ------------------------------------------------------------------ *)
(* _stream_firmware on its own                                        *)
(*                                                                    *)
(* StreamSpec begins where perform_update is about to write the       *)
(* receive-image command (dfu.py:215) in a first attempt whose start  *)
(* and init exchanges succeeded, for images of 0..StreamChunks chunks *)
(* with and without a one-byte tail and for receipt intervals from -1 *)
(* to one more than StreamChunks, and 8.                              *)
(* ------------------------------------------------------------------ *)

StreamLengths ==
    {c * chunk_size : c \in 0..StreamChunks}
      \cup {c * chunk_size + 1 : c \in 0..(StreamChunks - 1)}
StreamPrns == (-1..(StreamChunks + 1)) \cup {8}

StreamInit ==
    /\ entry = "dfu"
    /\ \E L \in StreamLengths : bin_data = Image(L)
    /\ prn \in StreamPrns
    /\ packet_delay = 0
    /\ pc = "w_recv"
    /\ attempt = 0
    /\ conns = 1
    /\ response_queue = <<>>
    /\ pkg_receipt_event \in BOOLEAN
    /\ bytes_sent = 0
    /\ packets_since_prn = 0
    /\ i = 0
    /\ status = 1
    /\ rx = <<OP_CODE_INIT_DFU_PARAMS, SUCCESS>>
    /\ acked = <<OP_CODE_START_DFU, OP_CODE_INIT_DFU_PARAMS>>
    /\ ctl = << <<OP_CODE_START_DFU, UPLOAD_MODE_APPLICATION>>,
                <<OP_CODE_INIT_DFU_PARAMS, 0>>, <<OP_CODE_INIT_DFU_PARAMS, 1>> >>
               \o (IF prn > 0
                   THEN << <<OP_CODE_PACKET_RECEIPT_NOTIF_REQ>> \o LE16(prn) >>
                   ELSE <<>>)
    /\ pkt = <<LE32(0) \o LE32(0) \o LE32(Len(bin_data)), dat_data>>
    /\ pct = -1
    /\ err = "none"
    /\ backoffs = 0
    /\ exitCode = -1
    /\ jump_attempt = 0
    /\ waits = 0
    /\ erased = FALSE
    /\ NoHint
    /\ NoLookup

StreamNext ==
    \/ NotificationHandler
    \/ WriteReceive
    \/ WriteChunk
    \/ ReceiptArrived
    \/ ReceiptTimeout

StreamSpec == StreamInit /\ [][StreamNext]_vars

(* the runs of dfu_cli.py's main *)
CliConfigs == {c \in Configs : c.entry = "cli"}

JumpNext == Next \/ JumpRaises \/ JumpBackoff \/ JumpRescan

JumpSpec == InitFor(CliConfigs) /\ [][JumpNext]_vars

(* ------------------------------------------------------------------ *)
(* vocabulary of the properties                                       *)
(* ------------------------------------------------------------------ *)

(* the op code each _wait_for_response call expects (dfu.py:183,202,222,229) *)
ExpectedOp(p) ==
    CASE p = "wait_start" -> OP_CODE_START_DFU
      [] p = "wait_init" -> OP_CODE_INIT_DFU_PARAMS
      [] p = "wait_recv" -> OP_CODE_RECEIVE_FIRMWARE_IMAGE
      [] p = "wait_validate" -> OP_CODE_VALIDATE
      [] OTHER -> 0

WaitPcs == {"wait_start", "wait_init", "wait_recv", "wait_validate"}

(* the task leaves a _wait_for_response (the deadline did not cancel it) *)
WaitReturns == pc \in WaitPcs /\ pc' # pc /\ err' # "timeout"

(* a command with this op code is among the control-point writes *)
Written(op) == \E k \in 1..Len(ctl) : ctl[k][1] = op

RECURSIVE Concat(_)
Concat(seqs) == IF seqs = <<>> THEN <<>> ELSE Head(seqs) \o Concat(Tail(seqs))

CeilDiv(a, b) == (a + b - 1) \div b

(* the packet writes after the size triple and the init packet *)
ChunkWrites == SubSeq(pkt, 3, Len(pkt))

(* _stream_firmware returned normally in the attempt under way *)
StreamCompleted == pc \in {"wait_recv", "w_validate", "wait_validate", "w_activate"}

IsPrefix(a, b) == Len(a) <= Len(b) /\ SubSeq(b, 1, Len(a)) = a

AllAcks == <<OP_CODE_START_DFU, OP_CODE_INIT_DFU_PARAMS,
             OP_CODE_RECEIVE_FIRMWARE_IMAGE, OP_CODE_VALIDATE>>

(* ------------------------------------------------------------------ *)
(* properties                                                         *)
(* ------------------------------------------------------------------ *)

(* C1: when a stream has completed normally, the chunk writes are       *)
(* ceil(L/20) in number, each of at most 20 bytes, their concatenation  *)
(* in the order written is the image, and bytes_sent is L.              *)
C1_StreamWritesImage ==
    StreamCompleted =>
        /\ Len(ChunkWrites) = CeilDiv(Len(bin_data), chunk_size)
        /\ \A k \in 1..Len(ChunkWrites) : Len(ChunkWrites[k]) <= chunk_size
        /\ Concat(ChunkWrites) = bin_data
        /\ bytes_sent = Len(bin_data)

C1_Witness ==
    /\ pc = "wait_recv"
    /\ Len(bin_data) = MaxChunks * chunk_size + 1
    /\ Len(ChunkWrites) = MaxChunks + 1

(* C2: activate-and-reset is written only when a success status was     *)
(* taken, in this order, for start, init, receive-image and validate in *)
(* this attempt; chunks are written only after the receive-image        *)
(* command; and once a wait of the attempt returned a non-success, the  *)
(* attempt writes nothing more but the reset command.                   *)
C2_Ordered ==
    /\ IsPrefix(acked, AllAcks)
    /\ Written(OP_CODE_ACTIVATE_AND_RESET) => acked = AllAcks
    /\ Len(ChunkWrites) > 0 => Written(OP_CODE_RECEIVE_FIRMWARE_IMAGE)
    /\ status \notin {0, SUCCESS} => pc \in {"w_reset", "backoff", "exit"}

C2_FailedWritesNothing ==
    status \notin {0, SUCCESS} =>
        /\ pkt' = pkt
        /\ ctl' \in {ctl, Append(ctl, <<OP_CODE_RESET>>)}

C2_CommandOrder == []C2_Ordered /\ [][C2_FailedWritesNothing]_vars

C2_Witness ==
    /\ pc = "exit"
    /\ Written(OP_CODE_ACTIVATE_AND_RESET)
    /\ attempt = 1

(* C3: a wait that takes a status event for another op code than the    *)
(* one it expects does not return success, and the event a wait takes   *)
(* is removed from the queue by that wait, so no other wait gets it.    *)
C3_Step ==
    (WaitReturns /\ response_queue # <<>>) =>
        /\ response_queue' = Tail(response_queue)
        /\ rx' = Head(response_queue)
        /\ Head(response_queue)[1] # ExpectedOp(pc) => status' # SUCCESS

C3_Correlation == [][C3_Step]_vars

C3_Witness ==
    /\ pc = "backoff"
    /\ rx = <<OP_CODE_START_DFU, SUCCESS>>
    /\ err = "init_failed"

(* C4: a wait that takes a status event for another op code removes it, *)
(* returns the non-success value at once and does not wait again; the   *)
(* events behind it, and any that arrive later, stay in the queue.      *)
MismatchAtHead ==
    /\ pc \in WaitPcs
    /\ response_queue # <<>>
    /\ Head(response_queue)[1] # ExpectedOp(pc)

C4_Step ==
    /\ (MismatchAtHead /\ response_queue' = Tail(response_queue)) =>
          /\ status' = NO_RESPONSE
          /\ pc' \in {"w_reset", "backoff", "exit"}
    /\ (MismatchAtHead /\ WaitReturns) =>
          response_queue' = Tail(response_queue)

C5_Bounded ==
    prn > 0 =>
        /\ packets_since_prn <= prn
        /\ pc = "w_chunk" => packets_since_prn < prn
        /\ pc = "prn_wait" => packets_since_prn = prn

C5_NoWriteWhileWaiting == pc = "prn_wait" => pkt' = pkt

C5_ReceiptInterval == []C5_Bounded /\ [][C5_NoWriteWhileWaiting]_vars

C5_Witness ==
    /\ pc = "prn_wait"
    /\ prn = MaxPrn
    /\ packets_since_prn = MaxPrn
    /\ Len(ChunkWrites) = MaxPrn

(* C6: a receipt timeout is not fatal.  A receipt wait that ends with   *)
(* the event unset goes on with the stream: to the next chunk write, or *)
(* to the end of the stream with 100% reported, the connection kept and *)
(* no error raised; and every receipt wait ends, after which the stream *)
(* completes unless a write fails or the run's deadline cancels it.     *)
ReceiptTimesOut ==
    pc = "prn_wait" /\ ~pkg_receipt_event /\ pc' # pc /\ err' # "timeout"

C6_TimeoutStep ==
    ReceiptTimesOut =>
        /\ pc' = IF MoreChunks(i, Len(bin_data)) THEN "w_chunk" ELSE "wait_recv"
        /\ pc' = "wait_recv" => pct' = 100
        /\ conns' = conns /\ err' = "none" /\ pkt' = pkt
        /\ bytes_sent' = bytes_sent

StreamEnded ==
    \/ pc = "wait_recv" /\ pct = 100 /\ bytes_sent = Len(bin_data)
    \/ err \in {"transport", "timeout"}

C6_ReceiptTimeoutNotFatal ==
    /\ [][C6_TimeoutStep]_vars
    /\ (pc = "prn_wait") ~> (pc # "prn_wait")
    /\ (pc = "prn_wait") ~> StreamEnded

C6_Witness ==
    /\ pc = "wait_recv"
    /\ prn = MaxPrn
    /\ Len(ChunkWrites) = MaxChunks + 1
    /\ ~pkg_receipt_event
    /\ pct = 100

(* C7: a run that succeeds at attempt k+1 has slept the backoff exactly *)
(* k times; a run whose attempts all fail has made exactly max_retries  *)
(* attempts and slept max_retries - 1 times, ends in failure, and no    *)
(* attempt starts after the run has ended.                              *)
AttemptErrors ==
    {"transport", "start_failed", "init_failed", "upload_failed",
     "validation_failed"}

C7_Retries ==
    /\ attempt < max_retries
    /\ pc \in UpdatePcs => backoffs = (IF pc = "backoff" THEN attempt + 1 ELSE attempt)
    /\ (pc = "exit" /\ err = "none") =>
          /\ exitCode = 0
          /\ backoffs = attempt
    /\ (pc = "exit" /\ err \in AttemptErrors) =>
          /\ attempt = max_retries - 1
          /\ backoffs = max_retries - 1
          /\ exitCode # 0

C7_Witness ==
    /\ pc = "exit"
    /\ err = "none"
    /\ attempt = 2
    /\ backoffs = 2

(* C8 as claimed: the backoff of the retry is followed by locating the  *)
(* target again.                                                        *)
C8_RetryRelocates ==
    [][(pc = "backoff" /\ pc' \notin {"backoff", "exit"}) => pc' = "find_app"]_vars

(* C8 as amended: the backoff of the retry is followed by a new         *)
(* connection to the update-mode device found before the first attempt  *)
(* and a new pass of the update state machine; once perform_update has  *)
(* begun no locate or rediscovery step is taken again; and a failure of *)
(* locate or of rediscovery ends the run without backoff or retry.      *)
LocatePcs ==
    {"find_app", "j_connect", "j_start_notify", "j_write", "j_sleep",
     "settle", "find_boot", "find_hint"}

C8_Step ==
    /\ (pc = "backoff" /\ pc' \notin {"backoff", "exit"}) =>
          (pc' = "connect" /\ attempt' = attempt + 1)
    /\ pc \in UpdatePcs => pc' \notin LocatePcs
    /\ (pc \in {"find_app", "find_boot", "find_hint"} /\ err' # "none") =>
          (pc' = "exit" /\ backoffs' = 0 /\ attempt' = 0)

C8_RetryReconnectsOnly == [][C8_Step]_vars

C8_Witness ==
    /\ pc = "start_notify"
    /\ attempt = 1
    /\ backoffs = 1

(* C9 as claimed: a run that ends in a failure ends with a non-zero     *)
(* process exit status.                                                 *)
C9_FailureExitsNonZero ==
    (pc = "exit" /\ err # "none") => exitCode # 0

(* C10: a connection is open only inside an attempt (or inside the      *)
(* jump), never during a backoff, a scan, a settle delay or after the   *)
(* run ended, and never more than one at a time.                        *)
ConnectedPcs ==
    (UpdatePcs \ {"connect", "backoff"})
      \cup {"j_start_notify", "j_write", "j_sleep"}

C10_ConnectionScoped ==
    /\ conns \in {0, 1}
    /\ conns = 1 <=> pc \in ConnectedPcs

C10_Witness ==
    /\ pc = "backoff"
    /\ err = "upload_failed"
    /\ conns = 0
    /\ Len(ctl) > 0

(* C11 as claimed: when the wait for the start status returned a       *)
(* non-success, the attempt ends with the start-sequence error whether  *)
(* the reset write succeeds or fails.                                   *)
C11_ResetFailureKeepsError ==
    [][(pc = "w_reset" /\ pc' # pc /\ err' # "timeout") =>
          (pc' \in {"backoff", "exit"} /\ err' = "start_failed")]_vars

(* C12: once the validate status was success, the step that writes      *)
(* activate-and-reset ends the run in success whether the write goes    *)
(* through or fails: no error is recorded, no backoff is slept, no      *)
(* attempt follows, the connection is closed, and the exit status is 0. *)
C12_Step ==
    (pc = "w_activate" /\ pc' # pc /\ err' # "timeout") =>
        /\ pc' = "exit"
        /\ err' = "none"
        /\ exitCode' = 0
        /\ backoffs' = backoffs /\ attempt' = attempt
        /\ conns' = 0
        /\ ctl' \in {ctl, Append(ctl, <<OP_CODE_ACTIVATE_AND_RESET>>)}

C12_Reached == pc = "w_activate" => (acked = AllAcks /\ err = "none")

C12_ActivateErrorSwallowed == []C12_Reached /\ [][C12_Step]_vars

C12_Witness ==
    /\ pc = "exit"
    /\ err = "none" /\ exitCode = 0
    /\ acked = AllAcks
    /\ ~Written(OP_CODE_ACTIVATE_AND_RESET)

(* C13: the jump is best-effort.  Whatever fails in it (the connection, *)
(* the subscription, the write of the jump command) the task goes on   *)
(* through the jump to the settle delay and from there to the scan for *)
(* the bootloader; no error is recorded, the run does not end, and the *)
(* connection of the jump is closed before the settle delay.           *)
JumpPcs == {"j_connect", "j_start_notify", "j_write", "j_sleep"}

C13_Step ==
    /\ (pc \in JumpPcs /\ pc' # pc) =>
          /\ pc' \in JumpPcs \cup {"settle"}
          /\ err' = "none" /\ exitCode' = -1
    /\ (pc = "settle" /\ pc' # pc) =>
          /\ pc' = "find_boot"
          /\ err' = "none" /\ exitCode' = -1

C13_Continues ==
    pc \in JumpPcs \cup {"settle"} =>
        /\ err = "none" /\ exitCode = -1
        /\ pc = "settle" => conns = 0
        /\ ENABLED TaskStep

C13_JumpBestEffort == []C13_Continues /\ [][C13_Step]_vars

C13_Witness ==
    /\ pc = "find_boot"
    /\ ~Written(OP_CODE_ENTER_BOOTLOADER)
    /\ err = "none" /\ conns = 0

(* C14: the jump loop makes at most three tries.  A try that fails     *)
(* before the third is followed by the 2 s sleep and then by the next  *)
(* try; only the failure of the third try is raised to main and ends   *)
(* the run; a try that returns normally ends the loop at once: the     *)
(* settle delay follows and no further try is made.                    *)
JumpLoopPcs == JumpPcs \cup {"j_rescan", "j_backoff"}

C14_Step ==
    /\ (pc \in JumpPcs \cup {"j_rescan"} /\ pc' \in {"j_backoff", "exit"}) =>
          /\ pc' = "exit" <=> jump_attempt = jump_tries - 1
          /\ pc' = "exit" => err' \in {"jump_failed", "device_not_found"}
          /\ pc' = "j_backoff" => (err' = "none" /\ exitCode' = -1)
          /\ jump_attempt' = jump_attempt
    /\ (pc = "j_backoff" /\ pc' # pc) =>
          (pc' = "j_rescan" /\ jump_attempt' = jump_attempt + 1)
    /\ (pc \in JumpPcs /\ pc' \in JumpPcs) => jump_attempt' = jump_attempt
    /\ pc \notin JumpLoopPcs => pc' \notin JumpLoopPcs \ {"j_connect"}
    /\ (pc \notin JumpLoopPcs /\ pc' = "j_connect") => pc = "find_app"

C14_Bounded ==
    /\ jump_attempt \in 0..(jump_tries - 1)
    /\ pc = "j_backoff" => jump_attempt < jump_tries - 1
    /\ pc \notin JumpLoopPcs \cup {"settle", "exit"} => jump_attempt = 0

TwoHex(b) == <<HexUpper[(b \div 16) + 1], HexUpper[(b % 16) + 1]>>

UpperHex(c) == IF \E k \in 1..16 : HexLower[k] = c
               THEN HexUpper[CHOOSE k \in 1..16 : HexLower[k] = c] ELSE c

LastOctet(mac) == <<UpperHex(mac[Len(mac) - 1]), UpperHex(mac[Len(mac)])>>

C15_HintIncrementsLastOctet ==
    pc = "find_hint" =>
        /\ Len(bootloader_mac_hint) = 17
        /\ SubSeq(bootloader_mac_hint, 1, 15) = SubSeq(original_mac, 1, 15)
        /\ \E b \in 0..255 :
              /\ LastOctet(original_mac) = TwoHex(b)
              /\ SubSeq(bootloader_mac_hint, 16, 17) = TwoHex((b + 1) % 256)
        /\ LastOctet(original_mac) = <<"F", "F">> =>
              SubSeq(bootloader_mac_hint, 16, 17) = <<"0", "0">>
        /\ LastOctet(original_mac) = <<"0", "1">> =>
              SubSeq(bootloader_mac_hint, 16, 17) = <<"0", "2">>

C15_Witness ==
    /\ pc = "find_hint"
    /\ SubSeq(original_mac, 13, 17) = <<"E", "E", ":", "F", "F">>
    /\ SubSeq(bootloader_mac_hint, 13, 17) = <<"E", "E", ":", "0", "0">>

(* C16 as claimed: the scan selects by priority over the whole scan     *)
(* result: the first device matching the identifier by address; if none *)
(* matches by address, the first matching by name; if none matches by   *)
(* name and a service filter is given, the first advertising it; else   *)
(* the scan fails with device-not-found.                                *)
FirstWhere(devices, Test(_)) ==
    LET hits == {k \in 1..Len(devices) : Test(devices[k])} IN
    IF hits = {} THEN <<>>
    ELSE <<devices[CHOOSE k \in hits : \A j \in hits : k <= j]>>

ByAddress(d) == upper(d.address) = upper(name_or_address)
ByName(d) == d.name = name_or_address
ByService(d) == service_uuid # <<>> /\ AdvertisesService(d, service_uuid)

PriorityTarget ==
    IF FirstWhere(scanned_devices, ByAddress) # <<>>
    THEN FirstWhere(scanned_devices, ByAddress)
    ELSE IF FirstWhere(scanned_devices, ByName) # <<>>
    THEN FirstWhere(scanned_devices, ByName)
    ELSE FirstWhere(scanned_devices, ByService)

C16_SelectsByPriority ==
    pc \in {"found", "exit"} =>
        /\ target = PriorityTarget
        /\ pc = "exit" <=> PriorityTarget = <<>>

C17_Range ==
    /\ pct \in {-1} \cup 0..100
    /\ StreamCompleted => pct = 100
    /\ (attempt = 0 /\ pc \in LocatePcs \cup {"connect", "start_notify", "w_start"})
          => pct = -1

C17_Step ==
    pct' < pct =>
        /\ pc = "w_chunk" /\ i = 0 /\ bytes_sent = 0
        /\ attempt > 0
        /\ pct = 100
        /\ pct' = Percent(Min(chunk_size, Len(bin_data)), Len(bin_data))

C18_Expires ==
    (err' = "timeout" /\ err # "timeout") =>
        /\ entry = "cli" /\ pc \in UpdatePcs
        /\ pc' = "exit"
        /\ conns' = 0
        /\ attempt' = attempt /\ backoffs' = backoffs
        /\ ctl' = ctl /\ pkt' = pkt

C18_Final == pc = "exit" => UNCHANGED <<pc, attempt, backoffs, conns, err, ctl, pkt>>

C18_AtAnyStep ==
    /\ (entry = "cli" /\ pc \in UpdatePcs) => ENABLED Deadline
    /\ err = "timeout" => (pc = "exit" /\ conns = 0 /\ entry = "cli")
    /\ (pc = "exit" /\ err # "timeout") =>
          err \in AttemptErrors \cup {"none", "device_not_found", "bootloader_not_found"}

C18_DeadlineCancels ==
    []C18_AtAnyStep /\ [][C18_Expires]_vars /\ [][C18_Final]_vars

C18_Witness ==
    /\ pc = "exit"
    /\ err = "timeout"
    /\ attempt = 1
    /\ Len(ChunkWrites) = 1
    /\ conns = 0

(* C19 as claimed: a retry observes nothing that was left before it     *)
(* wrote its start command.  The status queue is first-in first-out and *)
(* only a wait takes from it, so an event that is in the queue when the *)
(* start command has been written was delivered before that write and   *)
(* is the one the wait for the start status takes: the claim is that    *)
(* the queue is empty then, that bytes_sent is 0 when the stream writes *)
(* its first chunk, and that a receipt wait begins with the event       *)
(* cleared.                                                             *)
C19_Step ==
    /\ (attempt > 0 /\ pc = "w_start" /\ ctl' # ctl) => response_queue' = <<>>
    /\ (pc = "w_recv" /\ pc' = "w_chunk") => bytes_sent' = 0
    /\ (pc # "prn_wait" /\ pc' = "prn_wait") => ~pkg_receipt_event'

C19_FreshSession == [][C19_Step]_vars

(* C20: the commands whose status the attempt awaits are the start      *)
(* command, the init-params end, the receive-image command and the      *)
(* validate command.  While an attempt runs, the number of them written *)
(* on its connection exceeds the number of statuses it has taken by at  *)
(* most one, by exactly one from the write up to the return of the wait *)
(* for it, and such a command is written only when none is outstanding. *)
StatusCommands ==
    {<<OP_CODE_START_DFU, UPLOAD_MODE_APPLICATION>>,
     <<OP_CODE_INIT_DFU_PARAMS, 1>>,
     <<OP_CODE_RECEIVE_FIRMWARE_IMAGE>>,
     <<OP_CODE_VALIDATE>>}

Outstanding ==
    Cardinality({k \in 1..Len(ctl) : ctl[k] \in StatusCommands}) - Len(acked)

(* from the write of an awaited command to the return of its wait *)
ExpectingPcs ==
    {"delay", "w_size", "wait_start", "wait_init", "w_chunk", "prn_wait",
     "wait_recv", "wait_validate"}

RunningPcs == UpdatePcs \ {"connect", "backoff", "w_reset"}

C20_AtMostOne ==
    pc \in RunningPcs =>
        /\ Outstanding \in {0, 1}
        /\ Outstanding = 1 <=> pc \in ExpectingPcs

C20_Step ==
    (/\ pc \in UpdatePcs
     /\ Len(ctl') = Len(ctl) + 1
     /\ ctl'[Len(ctl')] \in StatusCommands) => Outstanding = 0

C20_OneOutstanding == []C20_AtMostOne /\ [][C20_Step]_vars

C20_Witness ==
    /\ pc = "wait_validate"
    /\ Outstanding = 1
    /\ Len(acked) = 3

(* C21: the two kinds of notification are separate channels.  A       *)
(* receipt frame sets the receipt event and leaves the status queue as *)
(* it is; a status frame appends its one (op code, status) pair to the *)
(* queue and leaves the receipt event as it is; a frame with another   *)
(* first byte changes neither.  No frame moves the task: a wait for a  *)
(* status returns only with the head of the queue or on its timeout,   *)
(* never because the receipt event was set, and it leaves that event   *)
(* as it is.                                                           *)
Delivered(data) ==
    /\ conns > 0
    /\ OnNotification(data)
    /\ UNCHANGED <<config, hint, lookup, observed, located, pc, attempt, conns, stream,
                   waited, wire, outcome>>

C21_Frames ==
    \A data \in Notifications :
        Delivered(data) =>
            IF data[1] = OP_CODE_PACKET_RECEIPT_NOTIF
            THEN pkg_receipt_event' /\ response_queue' = response_queue
            ELSE IF data[1] = OP_CODE_RESPONSE_CODE
            THEN /\ Len(response_queue') = Len(response_queue) + 1
                 /\ SubSeq(response_queue', 1, Len(response_queue)) = response_queue
                 /\ response_queue'[Len(response_queue')] = <<data[2], data[3]>>
                 /\ pkg_receipt_event' = pkg_receipt_event
            ELSE response_queue' = response_queue
                 /\ pkg_receipt_event' = pkg_receipt_event

C21_Channels ==
    /\ (pkg_receipt_event' /\ ~pkg_receipt_event) =>
          /\ response_queue' = response_queue
          /\ pc' = pc /\ status' = status /\ rx' = rx
    /\ Len(response_queue') > Len(response_queue) =>
          /\ pkg_receipt_event' = pkg_receipt_event
          /\ pc' = pc /\ status' = status /\ rx' = rx
    /\ WaitReturns =>
          /\ pkg_receipt_event' = pkg_receipt_event
          /\ rx' = (IF response_queue = <<>> THEN <<>> ELSE Head(response_queue))

C21_SeparateChannels == [][C21_Frames /\ C21_Channels]_vars

C21_Witness ==
    /\ pc = "wait_start"
    /\ pkg_receipt_event
    /\ response_queue = <<>>
    /\ status = 0 /\ rx = <<>>

(* C22: with C = ceil(L/20) chunks and receipt interval N, the stream  *)
(* has begun floor(k/N) receipt waits when k chunks are written, for   *)
(* N > 0, and none for N <= 0; so a stream that completes has made     *)
(* floor(C/N): C at N = 1, one (after the last chunk) at N = C, none   *)
(* at N > C, as for L = 41 and N = 8.                                  *)
InStream == pc \in {"w_chunk", "prn_wait", "wait_recv"}

C22_ReceiptWaits ==
    LET C == CeilDiv(Len(bin_data), chunk_size) IN
    /\ InStream =>
          waits = (IF prn > 0 THEN Len(ChunkWrites) \div prn ELSE 0)
    /\ pc = "prn_wait" => (prn > 0 /\ Len(ChunkWrites) % prn = 0)
    /\ pc = "wait_recv" =>
          /\ waits = (IF prn > 0 THEN C \div prn ELSE 0)
          /\ prn = 1 => waits = C
          /\ (prn = C /\ C > 0) => waits = 1
          /\ prn > C => waits = 0
          /\ (Len(bin_data) = 41 /\ prn = 8) => waits = 0

C22_Witness ==
    /\ pc = "wait_recv"
    /\ prn = StreamChunks
    /\ Len(ChunkWrites) = StreamChunks
    /\ waits = 1

(* C23: the stream clears the receipt event when the chunk write has    *)
(* returned and only then waits, so every receipt wait begins with the  *)
(* event unset: a receipt delivered before, also one delivered while    *)
(* the chunk write was suspended, is erased.  During the wait only a    *)
(* notification sets the event; while it is unset the wait can end only *)
(* by its timeout, and once it is set the wait returns.                 *)
C23_Cleared ==
    /\ (pc # "prn_wait" /\ pc' = "prn_wait") =>
          /\ pc = "w_chunk" /\ pkt' # pkt
          /\ ~pkg_receipt_event'
          /\ erased' = pkg_receipt_event
    /\ (pc = "prn_wait" /\ pkg_receipt_event' /\ ~pkg_receipt_event) =>
          (pc' = pc /\ pkt' = pkt /\ erased' = erased)

C23_Pending ==
    pc = "prn_wait" =>
        /\ ENABLED ReceiptArrived <=> pkg_receipt_event
        /\ ENABLED ReceiptTimeout <=> ~pkg_receipt_event

C23_ReceiptAfterClear == []C23_Pending /\ [][C23_Cleared]_vars

C23_Witness ==
    /\ pc = "prn_wait"
    /\ erased
    /\ ~pkg_receipt_event
    /\ prn = 2 /\ Len(ChunkWrites) = 2

TypeOK ==
    /\ conns \in 0..1
    /\ attempt \in 0..(max_retries - 1)
    /\ Len(response_queue) <= MaxQueue
    /\ bytes_sent \in 0..Len(bin_data)
    /\ exitCode \in {-1, 0, 1}

====
